---- MODULE Spec2Model ----
(***************************************************************************)
(* Model of the Raise3D printer API client (custom_components/raise3d):    *)
(* Raise3DPrinterAPI.printer_request, the stateful wrapper                 *)
(* Raise3DStatefulPrinterAPI (login, printer_request with re-login on 401) *)
(* and the transient-failure retry helper _async_call_api_method.          *)
(*                                                                         *)
(* A call is split at its await points: sending an HTTP request, waiting   *)
(* for the answer, the backoff sleep.  The printer is the environment: it  *)
(* answers every request with any response of Responses(endpoint).         *)
(*                                                                         *)
(* Spec follows one caller of one client.  SignSpec calls generate_sign on *)
(* its own.  HassSpec is the client as the integration uses it: built with *)
(* Home Assistant's shared session, polled by several coordinators at the  *)
(* same time, next to the client of another printer.                       *)
(***************************************************************************)
EXTENDS Integers, Sequences, FiniteSets, TLC

\* ------------------------------------------------------------------ bounds
MaxToken == 2      \* tokens the printer can issue: 1..MaxToken
MaxVal == 2        \* distinct payloads of a data field: 1..MaxVal
MaxTime == 2       \* readings of the clock, in seconds: 1..MaxTime

\* --------------------------------------------------------------- constants
NoToken == 0                 \* printer_token = None
HTTP_OK == 200
HTTP_UNAUTHORIZED == 401
HTTP_NOT_FOUND == 404
HTTP_TOO_MANY == 429
RAISE_FOR_STATUS == 400      \* aiohttp raise_for_status: status >= 400 raises
ECONNRESET == 104
RetryDelay == 15             \* asyncio.sleep(1.5), in tenths of a second
MsPerSecond == 1000          \* generate_sign: int(timestamp * 1000)
DEFAULT_CAMERA_PORT == 30

Tasks == {"t1", "t2"}        \* callers of the client (coroutines)
Callers == {"t1"}            \* the caller of the sequential specification
Tokens == 1..MaxToken
ErrCodes == {HTTP_UNAUTHORIZED, HTTP_NOT_FOUND, HTTP_TOO_MANY}
Errnos == {ECONNRESET, 111}                 \* errno of a ClientOSError
PassStatuses == {HTTP_OK, 201}              \* statuses raise_for_status lets pass
AutoAuthArgs == {"None", "True", "False"}   \* auto_auth: bool | None
Passwords == {"pw1", "pw2"}                 \* printer passwords
Times == 1..MaxTime                         \* time.time()
OptArgs == {"None", "given"}                \* login(sign=None, timestamp=None)

VARIABLES
    printer_token,      \* Raise3DPrinterAPI.printer_token (NoToken = None)
    printer_password,   \* Raise3DStatefulPrinterAPI.printer_password
    printer_auto_auth,  \* Raise3DStatefulPrinterAPI.printer_auto_auth
    session_closed,     \* Raise3DAPIBase._session.closed
    camera,             \* camera_username, camera_password, camera_port
    peer,               \* the client instance of another printer
    sig,                \* the last direct call of generate_sign and its result
    issued,             \* the token the printer honours (NoToken: none yet)
    tasks,              \* per caller: position and locals of its call
    net,                 \* per caller: the HTTP message in flight
    coordinator,        \* Raise3DUpdateCoordinator: data, shut down or not
    entity,             \* Raise3DCoordinatorEntity: _attr_available, _attr_native_value
    entry               \* ConfigEntry: version, minor_version, migration steps run

vars == <<printer_token, printer_password, printer_auto_auth, session_closed,
          camera, peer, sig, issued, tasks, net, coordinator, entity, entry>>

\* the state of the integration around the client
hassVars == <<coordinator, entity, entry>>

\* ---------------------------------------------------------------- values
NoData == [token |-> NoToken, val |-> 0]     \* data absent / null

\* error.code of a response body: absent, an int, a numeric string, or a
\* string that is no number
NoCode == [form |-> "absent", n |-> 0]
BadCode == [form |-> "text", n |-> 0]
Codes == {NoCode, BadCode} \cup [form : {"int", "str"}, n : ErrCodes]

NoResult == [kind |-> "none", data |-> NoData, exc |-> "", status |-> 0, msg |-> 0]
Return(d) == [kind |-> "return", data |-> d, exc |-> "", status |-> 0, msg |-> 0]
Raise(e, s, m) == [kind |-> "raise", data |-> NoData, exc |-> e, status |-> s, msg |-> m]
Sent == [kind |-> "sent", data |-> NoData, exc |-> "", status |-> 0, msg |-> 0]

NoMsg == [dir |-> "none"]
Request(endpoint, token) == [dir |-> "req", endpoint |-> endpoint, token |-> token]

\* the request of the base login: params sign and timestamp
LoginRequest(token, sign, timestamp) ==
    [dir |-> "req", endpoint |-> "login", token |-> token,
     sign |-> sign, timestamp |-> timestamp]

Resp(kind, errno, http, json, bstatus, data, code, msg) ==
    [dir |-> "resp", kind |-> kind, errno |-> errno, http |-> http, json |-> json,
     bstatus |-> bstatus, data |-> data, code |-> code, msg |-> msg]

\* the camera attributes of a client: after construction, and as read from
\* the data of a camera info answer (payload v has user name, password and
\* port number v)
NoCamera ==
    [camera_username |-> 0, camera_password |-> 0, camera_port |-> DEFAULT_CAMERA_PORT]
CameraInfo(d) ==
    [camera_username |-> d.val, camera_password |-> d.val, camera_port |-> d.val]

\* another printer's client: its own attributes, and its _session, which is
\* its own ("own") or the object this client has as well ("shared")
OwnPeer ==
    [printer_token |-> NoToken, printer_password |-> "pw1", camera |-> NoCamera,
     session |-> "own", closed |-> FALSE]
SharedPeer == [OwnPeer EXCEPT !.session = "shared"]

\* _session.closed of the other printer's client
PeerSessionClosed == IF peer.session = "shared" THEN session_closed ELSE peer.closed

\* the data a printer puts in a successful answer
DataFor(endpoint) ==
    IF endpoint = "login"
    THEN [token : 0..MaxToken, val : {0}]
    ELSE [token : {NoToken}, val : 0..MaxVal]

\* every answer the environment can give to a request
Responses(endpoint) ==
    {Resp("disconnected", 0, 0, FALSE, -1, NoData, NoCode, 0)}
    \cup {Resp("oserror", e, 0, FALSE, -1, NoData, NoCode, 0) : e \in Errnos}
    \cup {Resp("http", 0, h, FALSE, -1, NoData, NoCode, 0) :
            h \in {HTTP_OK, HTTP_UNAUTHORIZED, HTTP_NOT_FOUND, HTTP_TOO_MANY}}
    \cup {Resp("http", 0, h, TRUE, 1, d, NoCode, 0) :
            h \in PassStatuses, d \in DataFor(endpoint)}
    \cup {Resp("http", 0, HTTP_OK, TRUE, 0, NoData, c, 1) : c \in Codes}
    \cup {Resp("http", 0, HTTP_OK, TRUE, 0, NoData, c, 0) :
            c \in {NoCode, [form |-> "int", n |-> HTTP_NOT_FOUND]}}
    \cup {Resp("http", 0, h, TRUE, b, NoData, c, 1) :
            h \in PassStatuses, b \in {-1, 1},
            c \in {NoCode, [form |-> "int", n |-> HTTP_UNAUTHORIZED]}}
    \cup {Resp("http", 0, h, TRUE, 0, NoData, c, 1) :
            h \in {HTTP_UNAUTHORIZED, HTTP_NOT_FOUND},
            c \in {BadCode, [form |-> "int", n |-> HTTP_TOO_MANY]}}

\* the answers of a printer that works: data, a rejected token, a dropped
\* connection; a token for a login
LeanResponses(endpoint) ==
    IF endpoint = "login"
    THEN {Resp("http", 0, HTTP_OK, TRUE, 1, [token |-> k, val |-> 0], NoCode, 0) :
            k \in Tokens}
         \cup {Resp("http", 0, HTTP_UNAUTHORIZED, FALSE, -1, NoData, NoCode, 0)}
    ELSE {Resp("http", 0, HTTP_OK, TRUE, 1, [token |-> NoToken, val |-> v], NoCode, 0) :
            v \in {0, 1}}
         \cup {Resp("http", 0, HTTP_UNAUTHORIZED, FALSE, -1, NoData, NoCode, 0),
                Resp("disconnected", 0, 0, FALSE, -1, NoData, NoCode, 0)}

\* the answer of a printer that knows the password and honours the token
\* it issued last: data for a request with that token, 401 for any other
\* token; a login with a good signature is answered with the new token
Rejected == Resp("http", 0, HTTP_UNAUTHORIZED, FALSE, -1, NoData, NoCode, 0)
Served(m, password, honoured, new) ==
    IF m.endpoint = "login"
    THEN IF m.sign = [password |-> password, timestamp |-> m.timestamp]
         THEN Resp("http", 0, HTTP_OK, TRUE, 1, [token |-> new, val |-> 0], NoCode, 0)
         ELSE Rejected
    ELSE IF m.token = honoured /\ honoured # NoToken
         THEN Resp("http", 0, HTTP_OK, TRUE, 1, [token |-> NoToken, val |-> 1], NoCode, 0)
         ELSE Rejected

\* an answer to a login that carries a token
IsSuccessfulLogin(r) == r.kind = "http" /\ r.http = HTTP_OK /\ r.data.token # NoToken

\* ------------------------------------------------ Raise3DPrinterAPI (base)
UnknownError == 9            \* the default message "Unknown error"

\* int(error.code): None -> TypeError, "abc" -> ValueError, 401 / "401" -> 401
CanParseInt(code) == code.form \in {"int", "str"}
ParseInt(code) == code.n

\* error.get("msg", "Unknown error")
ErrorMsg(m) == IF m = 0 THEN UnknownError ELSE m

\* variant: the token guard is missing
PreSend_noTokenCheck(closed, token, auth) ==
    IF closed THEN Raise("RuntimeError", 0, 0) ELSE Sent

\* variant: the token guard comes before the session guard
PreSend_tokenFirst(closed, token, auth) ==
    IF auth /\ token = NoToken THEN Raise("ValueError", 0, 0)
    ELSE IF closed THEN Raise("RuntimeError", 0, 0)
    ELSE Sent

\* MD5(SHA1("password=<password>&timestamp=<timestamp>")): the digest is
\* identified with the string it is computed from
Digest(password, timestamp) == [password |-> password, timestamp |-> timestamp]

\* the timestamp argument of generate_sign: None, an int, a float or a
\* datetime; v is its value in seconds (int: in milliseconds)
NoTimestamp == [type |-> "None", v |-> 0]
Timestamps == {NoTimestamp} \cup [type : {"int", "float", "datetime"}, v : Times]

SignError == [ok |-> FALSE, sign |-> Digest("", 0), timestamp |-> 0]
Signed(password, ms) == [ok |-> TRUE, sign |-> Digest(password, ms), timestamp |-> ms]

\* variant: the signature is computed before the conversion to milliseconds
generate_sign_signSeconds(password, timestamp, now) ==
    LET seconds == IF timestamp.type = "None" THEN [type |-> "float", v |-> now]
                   ELSE IF timestamp.type = "datetime"
                        THEN [type |-> "float", v |-> timestamp.v]
                   ELSE timestamp
    IN  IF seconds.type = "float"
        THEN [Signed(password, seconds.v * MsPerSecond)
                EXCEPT !.sign = Digest(password, seconds.v)]
        ELSE SignError

\* generate_sign: None is replaced by time.time(), a datetime by its
\* timestamp(); a float is turned into milliseconds; anything else (an int)
\* raises ValueError
generate_sign(password, timestamp, now) ==
    LET seconds == IF timestamp.type = "None" THEN [type |-> "float", v |-> now]
                   ELSE IF timestamp.type = "datetime"
                        THEN [type |-> "float", v |-> timestamp.v]
                   ELSE timestamp
    IN  IF seconds.type = "float"
        THEN Signed(password, seconds.v * MsPerSecond)
        ELSE SignError

\* no direct call of generate_sign yet
NoSig == [password |-> "", timestamp |-> NoTimestamp, out |-> SignError]

\* printer_request, before the request is sent: the two guards
PreSend(closed, token, auth) ==
    IF closed THEN Raise("RuntimeError", 0, 0)
    ELSE IF auth /\ token = NoToken THEN Raise("ValueError", 0, 0)
    ELSE Sent

\* variant: the token is passed whether or not the call requires auth
PassToken_always(token, auth) == token

\* printer_request: the token parameter of the request that is built
PassToken(token, auth) == IF auth THEN token ELSE NoToken

\* variant: the HTTP status is not compared with 200
ParseResponse_anyHttp(r) ==
    IF r.kind = "disconnected" THEN Raise("ServerDisconnectedError", 0, 0)
    ELSE IF r.kind = "oserror" THEN Raise("ClientOSError", r.errno, 0)
    ELSE IF r.http >= RAISE_FOR_STATUS THEN Raise("ClientResponseError", r.http, 0)
    ELSE IF ~r.json THEN Raise("ContentTypeError", r.http, 0)
    ELSE IF r.bstatus = 1 THEN Return(r.data)
    ELSE IF ~CanParseInt(r.code) THEN Raise("ClientError", 0, ErrorMsg(r.msg))
    ELSE Raise("APIResponseError", ParseInt(r.code), ErrorMsg(r.msg))

\* variant: the API error carries the HTTP status, not the code of the body
ParseResponse_httpStatus(r) ==
    IF r.kind = "disconnected" THEN Raise("ServerDisconnectedError", 0, 0)
    ELSE IF r.kind = "oserror" THEN Raise("ClientOSError", r.errno, 0)
    ELSE IF r.http >= RAISE_FOR_STATUS THEN Raise("ClientResponseError", r.http, 0)
    ELSE IF ~r.json THEN Raise("ContentTypeError", r.http, 0)
    ELSE IF r.http = HTTP_OK /\ r.bstatus = 1 THEN Return(r.data)
    ELSE IF ~CanParseInt(r.code) THEN Raise("ClientError", 0, ErrorMsg(r.msg))
    ELSE Raise("APIResponseError", r.http, ErrorMsg(r.msg))

\* variant: a code that does not parse is reported as API error 0
ParseResponse_noGeneric(r) ==
    IF r.kind = "disconnected" THEN Raise("ServerDisconnectedError", 0, 0)
    ELSE IF r.kind = "oserror" THEN Raise("ClientOSError", r.errno, 0)
    ELSE IF r.http >= RAISE_FOR_STATUS THEN Raise("ClientResponseError", r.http, 0)
    ELSE IF ~r.json THEN Raise("ContentTypeError", r.http, 0)
    ELSE IF r.http = HTTP_OK /\ r.bstatus = 1 THEN Return(r.data)
    ELSE IF ~CanParseInt(r.code) THEN Raise("APIResponseError", 0, ErrorMsg(r.msg))
    ELSE Raise("APIResponseError", ParseInt(r.code), ErrorMsg(r.msg))

\* printer_request, once the exchange is over: what the call returns or raises
\* (status of a ClientOSError: its errno)
ParseResponse(r) ==
    IF r.kind = "disconnected" THEN Raise("ServerDisconnectedError", 0, 0)
    ELSE IF r.kind = "oserror" THEN Raise("ClientOSError", r.errno, 0)
    ELSE IF r.http >= RAISE_FOR_STATUS THEN Raise("ClientResponseError", r.http, 0)
    ELSE IF ~r.json THEN Raise("ContentTypeError", r.http, 0)
    ELSE IF r.http = HTTP_OK /\ r.bstatus = 1 THEN Return(r.data)
    ELSE IF ~CanParseInt(r.code) THEN Raise("ClientError", 0, ErrorMsg(r.msg))
    ELSE Raise("APIResponseError", ParseInt(r.code), ErrorMsg(r.msg))

\* exceptions that `except aiohttp.ClientResponseError` catches
IsClientResponseError(res) ==
    res.kind = "raise"
    /\ res.exc \in {"ClientResponseError", "APIResponseError", "ContentTypeError"}

\* ------------------------------------------ Raise3DStatefulPrinterAPI
\* variant: `if not auto_auth` instead of `if auto_auth is None`
AutoAuth_falsy(arg, instance) == IF arg = "True" THEN TRUE ELSE instance

\* printer_request: auto_auth defaults to the instance setting
AutoAuth(arg, instance) == IF arg = "None" THEN instance ELSE arg = "True"

\* variant: the wrong status is compared
ShouldReauth_403(sendNo, auto_auth, res) ==
    sendNo = 1 /\ IsClientResponseError(res) /\ auto_auth /\ res.status = 403

\* variant: the second send is inside the try as well
ShouldReauth_everySend(sendNo, auto_auth, res) ==
    IsClientResponseError(res) /\ auto_auth /\ res.status = HTTP_UNAUTHORIZED

\* variant: every response error leads to a login
ShouldReauth_anyStatus(sendNo, auto_auth, res) ==
    sendNo = 1 /\ IsClientResponseError(res) /\ auto_auth

\* printer_request: the except clause around the first send; the second
\* send (sendNo = 2) is outside the try
ShouldReauth(sendNo, auto_auth, res) ==
    /\ sendNo = 1
    /\ IsClientResponseError(res)
    /\ auto_auth
    /\ res.status = HTTP_UNAUTHORIZED

\* variant: the two arguments are swapped in the test
LoginArgsOk_swapped(sign_arg, ts_arg) == ~(sign_arg = "None" /\ ts_arg # "None")

\* login: a signature without a timestamp is refused
LoginArgsOk(sign_arg, ts_arg) == ~(ts_arg = "None" /\ sign_arg # "None")

\* login: response_data["token"]
HasToken(d) == d.token # NoToken
TokenField(d) == d.token

\* ------------------------------------------------ _async_call_api_method
\* variant: status 429 is not handled
IsTransient_no429(res) ==
    /\ res.kind = "raise"
    /\ \/ res.exc = "ServerDisconnectedError"
       \/ res.exc = "ClientOSError" /\ res.status = ECONNRESET

\* variant: the errno of a ClientOSError is not looked at
IsTransient_anyOSError(res) ==
    /\ res.kind = "raise"
    /\ \/ res.exc = "ServerDisconnectedError"
       \/ res.exc = "ClientOSError"
       \/ IsClientResponseError(res) /\ res.status = HTTP_TOO_MANY

\* the failures after which the call is repeated
IsTransient(res) ==
    /\ res.kind = "raise"
    /\ \/ res.exc = "ServerDisconnectedError"
       \/ res.exc = "ClientOSError" /\ res.status = ECONNRESET
       \/ IsClientResponseError(res) /\ res.status = HTTP_TOO_MANY

\* variant: the second invocation is retried like the first
ShouldRetry_always(invocation, res) == IsTransient(res)

\* the first invocation is inside the try, the second is not
ShouldRetry(invocation, res) == invocation = 1 /\ IsTransient(res)

\* ------------------------------------------------------------ call state
\* a caller's call: its arguments, its position (pc), the printer_request
\* frames it is in (stack), and what it has done so far in the current
\* invocation of the API method (sends, logins, hist)
IdleTask ==
    [pc |-> "idle", method |-> "none", site |-> "none", auth |-> FALSE,
     auto_arg |-> "None", wrapped |-> FALSE, sign_arg |-> "None", ts_arg |-> "None", invocations |-> 0, slept |-> 0, sends |-> 0, logins |-> 0,
     stack |-> <<>>, hist |-> <<>>, first |-> NoResult, out |-> NoResult,
     held |-> FALSE]

\* a Raise3DStatefulPrinterAPI.printer_request frame
Frame(endpoint, auth, auto_auth) ==
    [endpoint |-> endpoint, auth |-> auth, auto_auth |-> auto_auth, sendNo |-> 1]

Top(s) == s.stack[Len(s.stack)]

\* what a step of a call does: the caller's new state, the message it puts
\* on the wire, the client's token
Effect(task, msg, token) == [task |-> task, net |-> msg, token |-> token]

\* the outcomes of the base printer_request calls of this invocation
Logged(s, res) == [s EXCEPT !.hist = Append(@, res)]

\* the API method has returned or raised res.  Under _async_call_api_method
\* a transient failure of the first invocation leads to the backoff sleep;
\* everything else goes to the caller
Finish(s, res, token) ==
    IF s.wrapped /\ ShouldRetry(s.invocations, res)
    THEN Effect([s EXCEPT !.pc = "sleep", !.stack = <<>>, !.first = res], NoMsg, token)
    ELSE Effect([s EXCEPT !.pc = "done", !.stack = <<>>, !.out = res], NoMsg, token)

\* variant: the stale token is dropped before the login request is sent
StartLogin_clearToken(s, sign_arg, ts_arg, token, now) ==
    LET s0 == [s EXCEPT !.logins = @ + 1]
        s1 == [s0 EXCEPT !.stack = Append(@, Frame("login", FALSE,
                                                   AutoAuth("False", printer_auto_auth)))]
        g == generate_sign(printer_password, NoTimestamp, now)
        pre == PreSend(session_closed, NoToken, FALSE)
    IN  IF ~LoginArgsOk(sign_arg, ts_arg)
        THEN Finish(s0, Raise("ValueError", 0, 0), token)
        ELSE IF pre = Sent
        THEN Effect([s1 EXCEPT !.pc = "wait"],
                    LoginRequest(PassToken(NoToken, FALSE), g.sign, g.timestamp), NoToken)
        ELSE Finish(Logged(s1, pre), pre, NoToken)

\* Raise3DStatefulPrinterAPI.login up to its await: the arguments are checked,
\* the signature is generated from the stored password and the clock
\* (whatever sign and timestamp were given), the login request is sent by
\* printer_request with auth=False, auto_auth=False.  A closed session
\* raises RuntimeError, which no except clause on the way up catches
StartLogin(s, sign_arg, ts_arg, token, now) ==
    LET s0 == [s EXCEPT !.logins = @ + 1]
        s1 == [s0 EXCEPT !.stack = Append(@, Frame("login", FALSE,
                                                   AutoAuth("False", printer_auto_auth)))]
        g == generate_sign(printer_password, NoTimestamp, now)
        pre == PreSend(session_closed, token, FALSE)
    IN  IF ~LoginArgsOk(sign_arg, ts_arg)
        THEN Finish(s0, Raise("ValueError", 0, 0), token)
        ELSE IF pre = Sent
        THEN Effect([s1 EXCEPT !.pc = "wait"],
                    LoginRequest(PassToken(token, FALSE), g.sign, g.timestamp), token)
        ELSE Finish(Logged(s1, pre), pre, token)

\* variant: the second send carries the token read before the login
Retry_staleToken(s, token) ==
    LET f == Top(s)
        pre == PreSend(session_closed, token, f.auth)
    IN  IF pre = Sent
        THEN Effect([s EXCEPT !.pc = "wait",
                              !.sends = IF f.endpoint = "call" THEN @ + 1 ELSE @],
                    Request(f.endpoint, PassToken(printer_token, f.auth)), token)
        ELSE Finish(Logged(s, pre), pre, token)

\* Raise3DStatefulPrinterAPI.printer_request, line 490: the second send of
\* the frame on top of the stack, outside the try
Retry(s, token) ==
    LET f == Top(s)
        pre == PreSend(session_closed, token, f.auth)
    IN  IF pre = Sent
        THEN Effect([s EXCEPT !.pc = "wait",
                              !.sends = IF f.endpoint = "call" THEN @ + 1 ELSE @],
                    Request(f.endpoint, PassToken(token, f.auth)), token)
        ELSE Finish(Logged(s, pre), pre, token)

\* Raise3DStatefulPrinterAPI.login after its await: store the token, return
\* to the caller of login(): the printer_request frame below (which then
\* retries), or the caller of the API method
LoginReturned(s, res, token) ==
    IF ~HasToken(res.data)
    THEN Finish(s, Raise("KeyError", 0, 0), token)
    ELSE LET tok == TokenField(res.data)
             rest == SubSeq(s.stack, 1, Len(s.stack) - 1)
         IN  IF rest = <<>>
             THEN Finish([s EXCEPT !.stack = rest], res, tok)
             ELSE Retry([s EXCEPT !.stack = [rest EXCEPT ![Len(rest)].sendNo = 2]], tok)

\* Raise3DStatefulPrinterAPI.get_camera_info after its await: the camera
\* attributes are read from the data (Apply stores them); data that is null
\* cannot be subscripted
CameraReturned(s, res, token) ==
    IF res.data.val = 0
    THEN Finish(s, Raise("TypeError", 0, 0), token)
    ELSE Finish(s, res, token)

\* variant: get_camera_info stores the password of the camera ("camera") in
\* printer_password
PasswordAfter_camera(task) ==
    IF task.method = "camera" /\ task.pc = "done" /\ task.out.kind = "return"
    THEN "camera"
    ELSE printer_password

\* printer_password once a step of a call is taken: no statement of login,
\* printer_request or get_camera_info assigns it
PasswordAfter(task) == printer_password

\* the camera attributes once a step of a call is taken: get_camera_info
\* that returns has stored user name, password and port
CameraAfter(task) ==
    IF task.method = "camera" /\ task.pc = "done" /\ task.out.kind = "return"
    THEN CameraInfo(task.out.data)
    ELSE camera

\* variant: a failed login is ignored and the request is sent again
OnResult_retryAnyway(s, res, token, now) ==
    LET f == Top(s)
        s1 == Logged(s, res)
        rest == SubSeq(s.stack, 1, Len(s.stack) - 1)
    IN  IF res.kind = "raise"
        THEN IF ShouldReauth(f.sendNo, f.auto_auth, res)
             THEN StartLogin(s1, "None", "None", token, now)
             ELSE IF f.endpoint = "login" /\ rest # <<>>
             THEN Retry([s1 EXCEPT !.stack = [rest EXCEPT ![Len(rest)].sendNo = 2]],
                        token)
             ELSE Finish(s1, res, token)
        ELSE IF f.endpoint = "login"
             THEN LoginReturned(s1, res, token)
             ELSE IF s.method = "camera"
             THEN CameraReturned(s1, res, token)
             ELSE Finish(s1, res, token)

\* the base printer_request of the top frame is over with res
OnResult(s, res, token, now) ==
    LET f == Top(s)
        s1 == Logged(s, res)
    IN  IF res.kind = "raise"
        THEN IF ShouldReauth(f.sendNo, f.auto_auth, res)
             THEN StartLogin(s1, "None", "None", token, now)
             ELSE Finish(s1, res, token)
        ELSE IF f.endpoint = "login"
             THEN LoginReturned(s1, res, token)
             ELSE IF s.method = "camera"
             THEN CameraReturned(s1, res, token)
             ELSE Finish(s1, res, token)

\* one invocation of the API method, up to its first await
Invoke(s, token, now) ==
    LET s0 == [s EXCEPT !.invocations = @ + 1, !.sends = 0, !.logins = 0,
                        !.hist = <<>>, !.stack = <<>>, !.held = (token # NoToken)]
    IN  IF s.method = "login"
        THEN StartLogin(s0, s.sign_arg, s.ts_arg, token, now)
        ELSE LET f == Frame("call", s.auth, AutoAuth(s.auto_arg, printer_auto_auth))
                 s1 == [s0 EXCEPT !.stack = <<f>>]
                 pre == PreSend(session_closed, token, s.auth)
             IN  IF pre = Sent
                 THEN Effect([s1 EXCEPT !.pc = "wait", !.sends = 1],
                             Request("call", PassToken(token, s.auth)), token)
                 ELSE OnResult(s1, pre, token, now)

\* a step of a call on the client
ApplyClient(t, eff) ==
    /\ tasks' = [tasks EXCEPT ![t] = eff.task]
    /\ net' = [net EXCEPT ![t] = eff.net]
    /\ printer_token' = eff.token
    /\ camera' = CameraAfter(eff.task)
    /\ printer_password' = PasswordAfter(eff.task)
    /\ UNCHANGED <<printer_auto_auth, session_closed, peer, sig, issued>>

Apply(t, eff) == ApplyClient(t, eff) /\ UNCHANGED hassVars

\* the readings of the clock that matter to a step with effect eff: the
\* clock is read only when a login request is built, so every other step is
\* taken once, whatever the time
AnyTime == CHOOSE n \in Times : TRUE
ClockReadings(eff) ==
    IF eff.net.dir = "req" /\ eff.net.endpoint = "login" THEN Times ELSE {AnyTime}

\* ------------------------------------------------------------ integration
\* the values of a coordinator's data: a string (blank or not, a number in
\* text or not), an integer, or no such key
Value(type, text) == [type |-> type, text |-> text]
Absent == Value("absent", "")
NoneValue == Value("None", "")
Texts == {"", " ", "7", "on"}
Values == {Value("str", x) : x \in Texts} \cup {Value("int", "7")}

\* the data of a coordinator: None, or a mapping, of which the model keeps
\* the entity's attribute and the key is_camera_connected
NoneData == [none |-> TRUE, attr |-> Absent, is_camera_connected |-> "absent"]
Mapping(a, c) == [none |-> FALSE, attr |-> a, is_camera_connected |-> c]
Mappings == {Mapping(a, c) : a \in Values \cup {Absent}, c \in {"absent", "true", "false"}}
DataValues == {NoneData} \cup Mappings

\* str.strip() leaves nothing
Blank(text) == text \in {"", " "}

\* convert_unempty: a blank string becomes None, every other value is kept
convert_unempty(v) == IF v.type = "str" /\ Blank(v.text) THEN NoneValue ELSE v

\* float(value) or int(value): a number in text or an integer is converted,
\* any other text raises ValueError
Number(v) == IF v.text = "7" THEN Value("number", v.text) ELSE Value("ValueError", v.text)

\* wrap_convert_unempty(float): convert_unempty, then the conversion of what
\* is not None
wrap_convert_unempty(v) ==
    LET u == convert_unempty(v) IN IF u = NoneValue THEN NoneValue ELSE Number(u)

\* the converter of an entity description: none, convert_unempty (the
\* default), or a wrapped numeric conversion
Converters == {"None", "convert_unempty", "wrap_convert_unempty"}
Convert(converter, v) ==
    CASE converter = "None" -> v
      [] converter = "convert_unempty" -> convert_unempty(v)
      [] OTHER -> wrap_convert_unempty(v)

\* an entity: its class, its description's converter, and its state
Entity(class, converter) ==
    [class |-> class, converter |-> converter,
     available |-> FALSE, native_value |-> NoneValue, raised |-> "none"]
NoEntity == Entity("none", "None")
Classes == {"Raise3DCoordinatorEntity", "Raise3DCamera"}

\* variant: data without the attribute leaves the native value
process_coordinator_data_stale(e, data) ==
    IF data.attr # Absent
    THEN LET value == Convert(e.converter, data.attr)
         IN  IF value.type = "ValueError"
             THEN [e EXCEPT !.raised = "ValueError"]
             ELSE [e EXCEPT !.native_value = value]
    ELSE [e EXCEPT !.available = FALSE]

\* Raise3DCoordinatorEntity._process_coordinator_data
process_coordinator_data(e, data) ==
    IF data.attr # Absent
    THEN LET value == Convert(e.converter, data.attr)
         IN  IF value.type = "ValueError"
             THEN [e EXCEPT !.raised = "ValueError"]
             ELSE [e EXCEPT !.native_value = value]
    ELSE [e EXCEPT !.available = FALSE, !.native_value = NoneValue]

\* Raise3DCamera._process_coordinator_data
camera_process_coordinator_data(e, data) ==
    process_coordinator_data(
        [e EXCEPT !.available = (data.is_camera_connected = "true")], data)

\* Raise3DCoordinatorEntity._handle_coordinator_update
handle_coordinator_update(e, data) ==
    LET e0 == [e EXCEPT !.available = ~data.none, !.raised = "none"]
    IN  IF ~e0.available THEN e0
        ELSE IF e.class = "Raise3DCamera"
        THEN camera_process_coordinator_data(e0, data)
        ELSE process_coordinator_data(e0, data)

\* a coordinator: its data and whether async_shutdown was called
Coordinator(data, shutdown, raised) ==
    [data |-> data, shutdown |-> shutdown, raised |-> raised]
NewCoordinator == Coordinator(NoneData, FALSE, NoResult)

\* where the integration calls the printer API
Sites == {"setup", "config_flow", "migration", "poll", "command"}

\* variant: every call site goes through _async_call_api_method
UnderRetry_all(site) == site \in Sites

\* the call sites that go through _async_call_api_method: the coordinator's
\* _async_update_data and the entities' async_call_method_by_name; the login
\* and the get_system_info of setup, config flow and migration are awaited
\* as they are
UnderRetry(site) == site \in {"poll", "command"}

\* the data of an endpoint's answer as the coordinator's data: null, the
\* entity's attribute and a connected camera, or neither
PayloadOf(d) ==
    IF d.val = 0 THEN NoneData
    ELSE IF d.val = 1 THEN Mapping(Value("str", "on"), "true")
    ELSE Mapping(Absent, "false")

\* the answers of a printer to the integration: those of a printer that
\* works, a lost connection, and the statuses 404 (in the HTTP status or in
\* the body's error code) and 429
EntryResponses(endpoint) ==
    LeanResponses(endpoint)
    \cup {Resp("disconnected", 0, 0, FALSE, -1, NoData, NoCode, 0)}
    \cup {Resp("http", 0, h, FALSE, -1, NoData, NoCode, 0) :
            h \in {HTTP_NOT_FOUND, HTTP_TOO_MANY}}
    \cup {Resp("http", 0, HTTP_OK, TRUE, 0, NoData,
               [form |-> "int", n |-> HTTP_NOT_FOUND], 1)}

\* variant: any response error stops the updater
update_data_anyStatus(c, out) ==
    IF out.kind = "return"
    THEN Coordinator(PayloadOf(out.data), c.shutdown, NoResult)
    ELSE IF IsClientResponseError(out)
    THEN Coordinator(NoneData, TRUE, NoResult)
    ELSE [c EXCEPT !.raised = out]

\* Raise3DUpdateCoordinator._async_update_data, once the call under
\* _async_call_api_method is over with out: the data returned, None after
\* async_shutdown() on a response error with status 404, or the exception
\* raised to the framework, which keeps the data it has
update_data(c, out) ==
    IF out.kind = "return"
    THEN Coordinator(PayloadOf(out.data), c.shutdown, NoResult)
    ELSE IF IsClientResponseError(out) /\ out.status = HTTP_NOT_FOUND
    THEN Coordinator(NoneData, TRUE, NoResult)
    ELSE [c EXCEPT !.raised = out]

\* Raise3DFlowHandler.VERSION and MINOR_VERSION
VERSION == 2
MINOR_VERSION == 2

\* the versions a stored entry can have
Versions == 1..(VERSION + 1)
MinorVersions == 1..(MINOR_VERSION + 1)

\* a stored config entry (version, minor version, unique id, data, the
\* unique ids of its entities in the registry) and the course of its
\* migration: position, result, the versions written and the API calls made
StoredEntry(version, minor_version) ==
    [version |-> version, minor_version |-> minor_version,
     unique_id |-> "stored", data |-> "stored", registry |-> "stored",
     pc |-> "stored", result |-> "none", written |-> <<>>, api_calls |-> 0]
NoEntry == [StoredEntry(VERSION, MINOR_VERSION) EXCEPT !.pc = "none"]

\* variant: only the major version is compared
IsNewer_majorOnly(e) == e.version > VERSION

\* async_migrate_entry: the entry comes from a future version
IsNewer(e) ==
    e.version > VERSION \/ (e.version = VERSION /\ e.minor_version > MINOR_VERSION)

\* hass.config_entries.async_update_entry(config_entry, version=..,
\* minor_version=.., ...)
UpdateEntry(e, version, minor_version) ==
    [e EXCEPT !.version = version, !.minor_version = minor_version,
              !.written = Append(@, <<version, minor_version>>)]

\* async_migrate_entry, the block `if config_entry.version == 2`: from 2.1
\* the entities' unique ids are renamed, CONF_NAME is removed from the data
\* and the entry becomes 2.2; the next condition reads minor_version of
\* `config_entries`, a name the module does not define: NameError
MigrateVersion2(e) ==
    IF e.version # 2
    THEN [e EXCEPT !.pc = "done", !.result = "True"]
    ELSE LET e1 == IF e.minor_version = 1
                   THEN UpdateEntry([e EXCEPT !.registry = "renamed",
                                              !.data = "without_name"], 2, 2)
                   ELSE e
         IN  [e1 EXCEPT !.pc = "done", !.result = "NameError"]

\* async_migrate_entry, up to its first await of the printer (the login of
\* the block `if config_entry.version == 1`) or to its end
MigrateBegin(e) ==
    IF IsNewer(e) THEN [e EXCEPT !.pc = "done", !.result = "False"]
    ELSE IF e.version = 1 THEN [e EXCEPT !.pc = "login", !.api_calls = @ + 1]
    ELSE MigrateVersion2(e)

\* async_migrate_entry, the block `if config_entry.version == 1` after
\* get_system_info() has returned: the entry becomes 2.1 with the machine id
\* as unique id; the block of version 2 follows
MigrateVersion1(e) ==
    MigrateVersion2(UpdateEntry([e EXCEPT !.unique_id = "machine_id"], 2, 1))

\* the client on its own: nothing of the integration around it
NoIntegration ==
    coordinator = NewCoordinator /\ entity = NoEntity /\ entry = NoEntry

\* ---------------------------------------------------------------- actions
\* a client after construction, with its own session
Constructed ==
    /\ printer_token \in {NoToken} \cup Tokens
    /\ printer_password \in Passwords
    /\ printer_auto_auth \in BOOLEAN
    /\ session_closed = FALSE
    /\ camera = NoCamera
    /\ peer = OwnPeer
    /\ sig = NoSig
    /\ issued = NoToken
    /\ tasks = [t \in Tasks |-> IdleTask]
    /\ net = [t \in Tasks |-> NoMsg]
    /\ NoIntegration

\* the sequential specification follows a client with a given password: no
\* statement of the client branches on it
Init == Constructed /\ printer_password = "pw1"

\* a caller calls printer_request(..., auth=auth, auto_auth=auto_arg) through
\* an endpoint wrapper, directly or under _async_call_api_method
CallRequest(t, auth, auto_arg, wrapped) ==
    /\ tasks[t].pc = "idle"
    /\ LET call == [IdleTask EXCEPT !.method = "request", !.auth = auth,
                                    !.auto_arg = auto_arg, !.wrapped = wrapped]
       IN  \E now \in ClockReadings(Invoke(call, printer_token, AnyTime)) :
              Apply(t, Invoke(call, printer_token, now))

\* a caller calls get_camera_info(), directly or under _async_call_api_method
CallCameraInfo(t, wrapped) ==
    /\ tasks[t].pc = "idle"
    /\ LET call == [IdleTask EXCEPT !.method = "camera", !.auth = TRUE,
                                    !.wrapped = wrapped]
       IN  \E now \in ClockReadings(Invoke(call, printer_token, AnyTime)) :
              Apply(t, Invoke(call, printer_token, now))

\* a caller calls login(sign, timestamp)
CallLogin(t, wrapped, sign_arg, ts_arg) ==
    /\ tasks[t].pc = "idle"
    /\ LET call == [IdleTask EXCEPT !.method = "login", !.wrapped = wrapped,
                                    !.sign_arg = sign_arg, !.ts_arg = ts_arg]
       IN  \E now \in ClockReadings(Invoke(call, printer_token, AnyTime)) :
              Apply(t, Invoke(call, printer_token, now))

\* the printer (or the network) answers the request in flight
ServerAnswer(t) ==
    /\ net[t].dir = "req"
    /\ \E r \in Responses(net[t].endpoint) : net' = [net EXCEPT ![t] = r]
    /\ UNCHANGED <<printer_token, printer_password, printer_auto_auth,
                   session_closed, camera, peer, sig, issued, tasks>>
    /\ UNCHANGED hassVars

\* a printer that works answers the request in flight
PrinterAnswer(t) ==
    /\ net[t].dir = "req"
    /\ \E r \in LeanResponses(net[t].endpoint) : net' = [net EXCEPT ![t] = r]
    /\ UNCHANGED <<printer_token, printer_password, printer_auto_auth,
                   session_closed, camera, peer, sig, issued, tasks>>
    /\ UNCHANGED hassVars

\* the printer that honours its last token serves the request in flight; a
\* login makes it issue a token other than the one before
PrinterServes(t) ==
    /\ net[t].dir = "req"
    /\ \E new \in Tokens \ {issued} :
          /\ net' = [net EXCEPT ![t] = Served(net[t], printer_password, issued, new)]
          /\ issued' = IF IsSuccessfulLogin(net'[t]) THEN new ELSE issued
    /\ UNCHANGED <<printer_token, printer_password, printer_auto_auth,
                   session_closed, camera, peer, sig, tasks>>
    /\ UNCHANGED hassVars

\* the awaited session.request completes
Receive(t) ==
    /\ tasks[t].pc = "wait"
    /\ net[t].dir = "resp"
    /\ LET res == ParseResponse(net[t])
       IN  \E now \in ClockReadings(OnResult(tasks[t], res, printer_token, AnyTime)) :
              Apply(t, OnResult(tasks[t], res, printer_token, now))

\* _async_call_api_method: the backoff sleep is over, second invocation
Wake(t) ==
    /\ tasks[t].pc = "sleep"
    /\ LET call == [tasks[t] EXCEPT !.slept = @ + RetryDelay]
       IN  \E now \in ClockReadings(Invoke(call, printer_token, AnyTime)) :
              Apply(t, Invoke(call, printer_token, now))

\* the caller takes the result
TakeResult(t) ==
    /\ tasks[t].pc = "done"
    /\ tasks' = [tasks EXCEPT ![t] = IdleTask]
    /\ UNCHANGED <<printer_token, printer_password, printer_auto_auth,
                   session_closed, camera, peer, sig, issued, net>>
    /\ UNCHANGED hassVars

\* Raise3DAPIBase.close
Close ==
    /\ ~session_closed
    /\ session_closed' = TRUE
    /\ UNCHANGED <<printer_token, printer_password, printer_auto_auth,
                   camera, peer, sig, issued, tasks, net>>
    /\ UNCHANGED hassVars

Next ==
    \/ \E t \in Callers, auth \in BOOLEAN, a \in AutoAuthArgs, w \in BOOLEAN :
          CallRequest(t, auth, a, w)
    \/ \E t \in Callers, w \in BOOLEAN, sg \in OptArgs, ts \in OptArgs :
          CallLogin(t, w, sg, ts)
    \/ \E t \in Callers : ServerAnswer(t)
    \/ \E t \in Callers : Receive(t)
    \/ \E t \in Callers : Wake(t)
    \/ \E t \in Callers : TakeResult(t)
    \/ Close

Spec == Init /\ [][Next]_vars

\* a caller calls the static method generate_sign(password, timestamp)
CallGenerateSign(password, timestamp) ==
    /\ \E now \in Times :
          sig' = [password |-> password, timestamp |-> timestamp,
                  out |-> generate_sign(password, timestamp, now)]
    /\ UNCHANGED <<printer_token, printer_password, printer_auto_auth,
                   session_closed, camera, peer, issued, tasks, net>>
    /\ UNCHANGED hassVars

SignNext == \E pw \in Passwords, ts \in Timestamps : CallGenerateSign(pw, ts)

\* generate_sign on its own, called with every kind of timestamp
SignSpec == Constructed /\ [][SignNext]_vars

\* the clients as the integration builds them: every config entry's client
\* gets Home Assistant's shared session, no token before the first login,
\* auto-authentication by default
HassClient ==
    /\ printer_token = NoToken
    /\ printer_password \in Passwords
    /\ printer_auto_auth = TRUE
    /\ session_closed = FALSE
    /\ camera = NoCamera
    /\ peer = SharedPeer
    /\ sig = NoSig
    /\ issued = NoToken
    /\ tasks = [t \in Tasks |-> IdleTask]
    /\ net = [t \in Tasks |-> NoMsg]

HassInit == HassClient /\ NoIntegration

\* the integration at work on one client: the login of the setup, the polls
\* of its coordinators (each a task of its own), against a printer that
\* works; close() on the client
HassNext ==
    \/ \E t \in Tasks : CallLogin(t, FALSE, "None", "None")
    \/ \E t \in Tasks : CallRequest(t, TRUE, "None", TRUE)
    \/ \E t \in Tasks : CallCameraInfo(t, TRUE)
    \/ \E t \in Tasks : PrinterAnswer(t)
    \/ \E t \in Tasks : Receive(t)
    \/ \E t \in Tasks : Wake(t)
    \/ \E t \in Tasks : TakeResult(t)
    \/ Close

HassSpec == HassInit /\ [][HassNext]_vars

\* one client with a token, valid or stale, polled by its coordinators at
\* the same time, against the printer that honours its last token
RaceInit ==
    /\ printer_token \in Tokens
    /\ issued \in Tokens
    /\ printer_password \in Passwords
    /\ printer_auto_auth = TRUE
    /\ session_closed = FALSE
    /\ camera = NoCamera
    /\ peer = SharedPeer
    /\ sig = NoSig
    /\ tasks = [t \in Tasks |-> IdleTask]
    /\ net = [t \in Tasks |-> NoMsg]
    /\ NoIntegration

RaceNext ==
    \/ \E t \in Tasks : CallRequest(t, TRUE, "None", TRUE)
    \/ \E t \in Tasks : PrinterServes(t)
    \/ \E t \in Tasks : Receive(t)
    \/ \E t \in Tasks : TakeResult(t)

RaceSpec == RaceInit /\ [][RaceNext]_vars

\* the coordinator has new data d (or None) and calls its listener, the
\* entity's _handle_coordinator_update
CoordinatorUpdate(d) ==
    /\ coordinator' = [coordinator EXCEPT !.data = d]
    /\ entity' = handle_coordinator_update(entity, d)
    /\ UNCHANGED <<printer_token, printer_password, printer_auto_auth,
                   session_closed, camera, peer, sig, issued, tasks, net, entry>>

\* an entity of either class, with any converter, before its first update
EntityInit ==
    /\ HassClient
    /\ coordinator = NewCoordinator
    /\ entity \in {Entity(c, k) : c \in Classes, k \in Converters}
    /\ entry = NoEntry

EntityNext == \E d \in DataValues : CoordinatorUpdate(d)

\* an entity under the updates of its coordinator
EntitySpec == EntityInit /\ [][EntityNext]_vars

\* the integration calls an API method at one of its call sites
IntegrationCall(t, site, method) ==
    /\ tasks[t].pc = "idle"
    /\ LET call == [IdleTask EXCEPT !.method = method, !.site = site, !.auth = TRUE,
                                    !.wrapped = UnderRetry(site)]
       IN  \E now \in ClockReadings(Invoke(call, printer_token, AnyTime)) :
              Apply(t, Invoke(call, printer_token, now))

\* async_initialize_api_from_configuration, called by the setup of an entry,
\* by the config flow and by the migration: login()
InitializeApi(t, site) == IntegrationCall(t, site, "login")

\* async_fetch_device_info, async_step_user, async_migrate_entry:
\* get_system_info()
FetchSystemInfo(t, site) == IntegrationCall(t, site, "request")

\* the framework refreshes a coordinator that is not shut down:
\* _async_update_data calls the update method
Poll(t) == ~coordinator.shutdown /\ IntegrationCall(t, "poll", "request")

\* an entity's async_call_method_by_name (number, button)
Command(t) == IntegrationCall(t, "command", "request")

\* the printer answers the integration's request in flight
EntryAnswer(t) ==
    /\ net[t].dir = "req"
    /\ \E r \in EntryResponses(net[t].endpoint) : net' = [net EXCEPT ![t] = r]
    /\ UNCHANGED <<printer_token, printer_password, printer_auto_auth,
                   session_closed, camera, peer, sig, issued, tasks>>
    /\ UNCHANGED hassVars

\* the call is over: _async_update_data ends and the coordinator tells its
\* listener when its data is new; any other call site has its result
Deliver(t) ==
    /\ tasks[t].pc = "done"
    /\ tasks' = [tasks EXCEPT ![t] = IdleTask]
    /\ coordinator' = IF tasks[t].site = "poll"
                      THEN update_data(coordinator, tasks[t].out)
                      ELSE coordinator
    /\ entity' = IF coordinator'.data # coordinator.data
                 THEN handle_coordinator_update(entity, coordinator'.data)
                 ELSE entity
    /\ UNCHANGED <<printer_token, printer_password, printer_auto_auth,
                   session_closed, camera, peer, sig, issued, net, entry>>

\* a config entry's client, one coordinator and one of its entities
EntryInit ==
    /\ HassClient
    /\ coordinator = NewCoordinator
    /\ entity = Entity("Raise3DCoordinatorEntity", "convert_unempty")
    /\ entry = NoEntry

EntryNext ==
    \/ \E t \in Callers, site \in Sites \ {"poll", "command"} : InitializeApi(t, site)
    \/ \E t \in Callers, site \in Sites \ {"poll", "command"} : FetchSystemInfo(t, site)
    \/ \E t \in Callers : Poll(t)
    \/ \E t \in Callers : Command(t)
    \/ \E t \in Callers : EntryAnswer(t)
    \/ \E t \in Callers : Receive(t)
    \/ \E t \in Callers : Wake(t)
    \/ \E t \in Callers : Deliver(t)

\* the integration's calls on one client, one at a time
EntrySpec == EntryInit /\ [][EntryNext]_vars

\* a call of the migration: login() or get_system_info(), awaited directly
MigrationCall(t, method) ==
    LET call == [IdleTask EXCEPT !.method = method, !.site = "migration",
                                 !.auth = TRUE, !.wrapped = UnderRetry("migration")]
    IN  \E now \in ClockReadings(Invoke(call, printer_token, AnyTime)) :
           ApplyClient(t, Invoke(call, printer_token, now))

\* Home Assistant calls async_migrate_entry with the stored entry
MigrateStart(t) ==
    /\ entry.pc = "stored"
    /\ tasks[t].pc = "idle"
    /\ entry' = MigrateBegin(entry)
    /\ IF entry'.pc = "login"
       THEN MigrationCall(t, "login")
       ELSE UNCHANGED <<printer_token, printer_password, printer_auto_auth,
                         session_closed, camera, peer, sig, issued, tasks, net>>
    /\ UNCHANGED <<coordinator, entity>>

\* the migration's login is over: its exception ends the migration, its
\* return is followed by get_system_info()
MigrateLoggedIn(t) ==
    /\ entry.pc = "login"
    /\ tasks[t].pc = "done"
    /\ IF tasks[t].out.kind = "raise"
       THEN /\ entry' = [entry EXCEPT !.pc = "done", !.result = tasks[t].out.exc]
            /\ tasks' = [tasks EXCEPT ![t] = IdleTask]
            /\ UNCHANGED <<printer_token, printer_password, printer_auto_auth,
                           session_closed, camera, peer, sig, issued, net>>
       ELSE /\ entry' = [entry EXCEPT !.pc = "fetch", !.api_calls = @ + 1]
            /\ MigrationCall(t, "request")
    /\ UNCHANGED <<coordinator, entity>>

\* the migration's get_system_info() is over: its exception ends the
\* migration, its return lets the migration run to its end
MigrateFetched(t) ==
    /\ entry.pc = "fetch"
    /\ tasks[t].pc = "done"
    /\ entry' = IF tasks[t].out.kind = "raise"
                THEN [entry EXCEPT !.pc = "done", !.result = tasks[t].out.exc]
                ELSE MigrateVersion1(entry)
    /\ tasks' = [tasks EXCEPT ![t] = IdleTask]
    /\ UNCHANGED <<printer_token, printer_password, printer_auto_auth,
                   session_closed, camera, peer, sig, issued, net,
                   coordinator, entity>>

\* a stored entry of any version, the client of its migration
MigrateInit ==
    /\ HassClient
    /\ coordinator = NewCoordinator
    /\ entity = NoEntity
    /\ entry \in {StoredEntry(v, m) : v \in Versions, m \in MinorVersions}

MigrateNext ==
    \/ \E t \in Callers : MigrateStart(t)
    \/ \E t \in Callers : PrinterAnswer(t)
    \/ \E t \in Callers : Receive(t)
    \/ \E t \in Callers : MigrateLoggedIn(t)
    \/ \E t \in Callers : MigrateFetched(t)

\* the migration of a stored entry
MigrateSpec == MigrateInit /\ [][MigrateNext]_vars

\* the event loop resumes a coroutine whose await has completed, and every
\* HTTP exchange ends, with an answer or with a transport error
FairSpec ==
    /\ Spec
    /\ \A t \in Callers :
          WF_vars(ServerAnswer(t)) /\ WF_vars(Receive(t)) /\ WF_vars(Wake(t))

\* ------------------------------------------------------------ properties
\* auto-authentication is enabled for the call: by its auto_auth argument,
\* or by the instance setting when the argument is not given
AutoAuthEnabled(s) ==
    s.auto_arg = "True" \/ (s.auto_arg = "None" /\ printer_auto_auth)

\* an answer with HTTP status 200 whose JSON body has status 1
IsSuccess(r) ==
    r.dir = "resp" /\ r.kind = "http" /\ r.http = HTTP_OK /\ r.json /\ r.bstatus = 1

IsHttp401(r) == r.dir = "resp" /\ r.kind = "http" /\ r.http = HTTP_UNAUTHORIZED

\* caller t takes the answer in flight
Receives(t) ==
    tasks[t].pc = "wait" /\ net[t].dir = "resp" /\ tasks'[t] # tasks[t]

\* the answer is for the original request (not for the login request)
OfCall(s) == s.method = "request" /\ Top(s).endpoint = "call"

\* the first send of the invocation was answered with HTTP 401
First401(s) ==
    Len(s.hist) >= 1 /\ s.hist[1] = Raise("ClientResponseError", HTTP_UNAUTHORIZED, 0)

\* what the invocation of the API method that just ended returned or raised:
\* given to the caller, or kept by _async_call_api_method during its backoff
Outcome(s) == IF s.pc = "sleep" THEN s.first ELSE s.out

\* C1: with auto-auth enabled and a token held, a 401 answer to the first
\* send makes one login call; when the login succeeds the request is sent a
\* second time; when that send succeeds the caller gets its data, after
\* exactly one login call and exactly two sends.
C1_ReloginThenRetry ==
    [][\A t \in Tasks :
        LET s == tasks[t]
            n == tasks'[t]
        IN  Receives(t) /\ s.method = "request" /\ AutoAuthEnabled(s) /\ s.held =>
            /\ (OfCall(s) /\ s.sends = 1 /\ IsHttp401(net[t])) =>
                  /\ n.logins = 1 /\ n.sends = 1
                  /\ ~session_closed =>
                        net'[t].dir = "req" /\ net'[t].endpoint = "login"
            /\ (Top(s).endpoint = "login" /\ First401(s) /\ IsSuccess(net[t])
                /\ HasToken(net[t].data) /\ ~session_closed) =>
                  /\ n.logins = 1 /\ n.sends = 2
                  /\ net'[t].dir = "req" /\ net'[t].endpoint = "call"
            /\ (OfCall(s) /\ s.sends = 2 /\ First401(s) /\ IsSuccess(net[t])) =>
                  /\ n.pc = "done" /\ n.out = Return(net[t].data)
                  /\ n.logins = 1 /\ n.sends = 2
    ]_vars

C1_Witness ==
    \E t \in Tasks :
        /\ tasks[t].pc = "done" /\ tasks[t].method = "request"
        /\ tasks[t].held /\ AutoAuthEnabled(tasks[t])
        /\ Len(tasks[t].hist) = 3 /\ First401(tasks[t])
        /\ tasks[t].hist[2].kind = "return"
        /\ tasks[t].out.kind = "return" /\ tasks[t].out.data.val # 0
        /\ tasks[t].logins = 1 /\ tasks[t].sends = 2

\* the counts of one invocation of printer_request, and what becomes of a
\* failed second send
C2_Bounded ==
    \A t \in Tasks :
        LET s == tasks[t]
        IN  /\ s.logins <= 1 /\ s.sends <= 2 /\ Len(s.stack) <= 2
            /\ s.method = "login" => s.sends = 0
            /\ (s.method = "request" /\ s.sends = 2 /\ s.pc # "wait") =>
                  Outcome(s) = s.hist[Len(s.hist)]
            /\ (s.method = "request" /\ Len(s.hist) = 3 /\ First401(s)
                /\ s.hist[3] = Raise("ClientResponseError", HTTP_UNAUTHORIZED, 0)) =>
                  /\ s.pc = "done"
                  /\ s.out = Raise("ClientResponseError", HTTP_UNAUTHORIZED, 0)

\* C2: one invocation of printer_request makes at most one login call and
\* sends the original request at most twice, the login request is never
\* followed by a further login, a 401 answer to the second send is raised to
\* the caller, and every invocation that waits for an answer ends.
C2_SecondFailureRaised ==
    /\ []C2_Bounded
    /\ \A t \in Callers :
          (tasks[t].pc = "wait") ~> (tasks[t].pc \in {"done", "sleep"})

C2_Witness ==
    \E t \in Tasks :
        /\ tasks[t].pc = "done" /\ tasks[t].method = "request"
        /\ Len(tasks[t].hist) = 3 /\ First401(tasks[t])
        /\ tasks[t].hist[3] = Raise("ClientResponseError", HTTP_UNAUTHORIZED, 0)
        /\ tasks[t].out = Raise("ClientResponseError", HTTP_UNAUTHORIZED, 0)
        /\ tasks[t].logins = 1 /\ tasks[t].sends = 2

\* caller t starts an invocation of the API method (the call itself, or the
\* second invocation after the backoff)
Invokes(t) == tasks'[t].invocations = tasks[t].invocations + 1

\* C3 (as claimed): with auto-authentication enabled and no token held, a
\* call that requires auth logs in first and does not fail with the
\* missing-credentials error.
C3_AutoLoginWithoutToken ==
    \A t \in Tasks :
        LET s == tasks[t]
        IN  (s.pc = "done" /\ s.method = "request" /\ s.auth /\ ~s.held
             /\ AutoAuthEnabled(s)) =>
                s.out # Raise("ValueError", 0, 0)

\* C4: with auto-authentication disabled and no token held, a call that
\* requires auth fails with ValueError; nothing is sent, no login is made and
\* the client is unchanged.
C4_MissingCredentials ==
    [][\A t \in Tasks :
        LET n == tasks'[t]
        IN  (Invokes(t) /\ n.method = "request" /\ n.auth /\ ~AutoAuthEnabled(n)
             /\ printer_token = NoToken /\ ~session_closed) =>
                /\ n.pc = "done" /\ n.out = Raise("ValueError", 0, 0)
                /\ n.sends = 0 /\ n.logins = 0
                /\ net'[t] = NoMsg
                /\ printer_token' = printer_token
                /\ session_closed' = session_closed
                /\ printer_auto_auth' = printer_auto_auth
    ]_vars

C4_Witness ==
    \E t \in Tasks :
        /\ tasks[t].pc = "done" /\ tasks[t].method = "request" /\ tasks[t].auth
        /\ ~AutoAuthEnabled(tasks[t]) /\ ~tasks[t].held /\ ~session_closed
        /\ tasks[t].out = Raise("ValueError", 0, 0)
        /\ tasks[t].sends = 0 /\ tasks[t].logins = 0

\* the call gets as far as printer_request: login does not when it refuses
\* its arguments
ReachesRequest(s) ==
    ~(s.method = "login" /\ s.sign_arg = "given" /\ s.ts_arg = "None")

\* C5: on a closed session printer_request fails with RuntimeError before
\* any other check: nothing is sent, printer_request makes no login and the
\* token is unchanged, whatever the token and the auto-auth setting.
C5_ClosedSession ==
    [][\A t \in Tasks :
        LET n == tasks'[t]
        IN  (Invokes(t) /\ ReachesRequest(n) /\ session_closed) =>
                /\ n.pc = "done" /\ n.out = Raise("RuntimeError", 0, 0)
                /\ n.sends = 0
                /\ n.method = "request" => n.logins = 0
                /\ net'[t] = NoMsg
                /\ printer_token' = printer_token
    ]_vars

C5_Witness ==
    \E t \in Tasks :
        /\ tasks[t].pc = "done" /\ tasks[t].method = "request" /\ tasks[t].auth
        /\ AutoAuthEnabled(tasks[t]) /\ ~tasks[t].held /\ session_closed
        /\ tasks[t].out = Raise("RuntimeError", 0, 0)
        /\ tasks[t].sends = 0 /\ tasks[t].logins = 0

\* C6: with auto-authentication disabled (instance setting or per-call
\* override) an HTTP 401 answer is raised after a single send: no login, no
\* second send, token unchanged.
C6_No401RetryWhenDisabled ==
    [][\A t \in Tasks :
        LET s == tasks[t]
            n == tasks'[t]
        IN  (Receives(t) /\ OfCall(s) /\ s.sends = 1 /\ ~AutoAuthEnabled(s)
             /\ IsHttp401(net[t])) =>
                /\ n.pc = "done"
                /\ n.out = Raise("ClientResponseError", HTTP_UNAUTHORIZED, 0)
                /\ n.sends = 1 /\ n.logins = 0
                /\ net'[t] = NoMsg
                /\ printer_token' = printer_token
    ]_vars

C6_Witness ==
    \E t \in Tasks :
        /\ tasks[t].pc = "done" /\ tasks[t].method = "request"
        /\ tasks[t].auto_arg = "False" /\ printer_auto_auth
        /\ tasks[t].out = Raise("ClientResponseError", HTTP_UNAUTHORIZED, 0)
        /\ tasks[t].sends = 1 /\ tasks[t].logins = 0

\* printer_request makes a login call in this step
LoginCalled(t) ==
    /\ tasks[t].method = "request"
    /\ tasks'[t].method = "request"
    /\ tasks'[t].logins = tasks[t].logins + 1

\* an answer that passes raise_for_status, is not the success answer, and
\* whose body has an error.code that reads as the integer 401
IsBody401(r) ==
    /\ r.dir = "resp" /\ r.kind = "http" /\ r.http < RAISE_FOR_STATUS /\ r.json
    /\ ~(r.http = HTTP_OK /\ r.bstatus = 1)
    /\ r.code \in {[form |-> "int", n |-> HTTP_UNAUTHORIZED],
                   [form |-> "str", n |-> HTTP_UNAUTHORIZED]}

\* C7 (as claimed): printer_request makes a login call only after an answer
\* whose HTTP status is 401.
C7_LoginOnlyOnHttp401 ==
    [][\A t \in Tasks : LoginCalled(t) => IsHttp401(net[t])]_vars

\* C7 (amended): printer_request makes a login call only with auto-auth
\* enabled and after an answer that has HTTP status 401 or that reports
\* error.code 401 in the body of a non-success answer with a status below 400.
C7_LoginOnlyOnStatus401 ==
    [][\A t \in Tasks :
        LoginCalled(t) =>
            /\ AutoAuthEnabled(tasks[t])
            /\ IsHttp401(net[t]) \/ IsBody401(net[t])
    ]_vars

C7_Witness ==
    \E t \in Tasks :
        /\ tasks[t].method = "request" /\ tasks[t].logins = 1
        /\ tasks[t].hist[1].exc = "APIResponseError"
        /\ tasks[t].hist[1].status = HTTP_UNAUTHORIZED
        /\ net[t].dir = "req" /\ net[t].endpoint = "login"

\* the transient failures: server disconnected, OS connection error with
\* errno 104, response error with status 429
TransientFailure(res) ==
    /\ res.kind = "raise"
    /\ \/ res.exc = "ServerDisconnectedError"
       \/ res.exc = "ClientOSError" /\ res.status = ECONNRESET
       \/ /\ res.exc \in {"ClientResponseError", "APIResponseError", "ContentTypeError"}
          /\ res.status = HTTP_TOO_MANY

\* C8: under _async_call_api_method a transient failure of the first
\* invocation is not given to the caller: one backoff of 1.5 s follows, then
\* the second invocation, and when that one succeeds the caller gets its
\* result.
C8_RetryAfterTransient ==
    [][\A t \in Tasks :
        LET s == tasks[t]
            n == tasks'[t]
        IN  n.wrapped =>
            /\ (n.pc = "done" /\ n.invocations = 1) => ~TransientFailure(n.out)
            /\ n.pc = "sleep" =>
                  n.invocations = 1 /\ n.slept = 0 /\ TransientFailure(n.first)
            /\ n.invocations = 2 =>
                  n.slept = RetryDelay /\ TransientFailure(n.first)
            /\ (Receives(t) /\ s.invocations = 2 /\ IsSuccess(net[t])
                /\ (OfCall(s) \/ (s.method = "login" /\ HasToken(net[t].data)))) =>
                  /\ n.pc = "done" /\ n.out = Return(net[t].data)
                  /\ n.invocations = 2 /\ n.slept = RetryDelay
    ]_vars

C8_Witness ==
    \E t \in Tasks :
        /\ tasks[t].pc = "done" /\ tasks[t].wrapped /\ tasks[t].method = "request"
        /\ tasks[t].invocations = 2 /\ tasks[t].slept = RetryDelay
        /\ tasks[t].first = Raise("ClientResponseError", HTTP_TOO_MANY, 0)
        /\ tasks[t].out.kind = "return" /\ tasks[t].out.data.val # 0

\* C9: _async_call_api_method invokes the API method at most twice and
\* sleeps at most once; whatever the second invocation raises goes to the
\* caller at once.
C9_AtMostTwoInvocations ==
    \A t \in Tasks :
        LET s == tasks[t]
        IN  /\ s.invocations <= 2 /\ s.slept <= RetryDelay
            /\ ~s.wrapped => s.invocations <= 1 /\ s.slept = 0
            /\ s.invocations = 2 => s.pc \in {"wait", "done"}
            /\ (s.invocations = 2 /\ s.pc = "done" /\ Len(s.hist) >= 1
                /\ s.hist[Len(s.hist)].kind = "raise") =>
                  s.out = s.hist[Len(s.hist)]

C9_Witness ==
    \E t \in Tasks :
        /\ tasks[t].pc = "done" /\ tasks[t].wrapped
        /\ tasks[t].invocations = 2 /\ tasks[t].slept = RetryDelay
        /\ TransientFailure(tasks[t].first)
        /\ TransientFailure(tasks[t].out)

\* C10: the base printer_request returns exactly when the answer has HTTP
\* status 200 and a JSON body with status 1, and then returns the body's
\* data field as it is.
C10_ReturnsIffSuccess ==
    [][\A t \in Tasks :
        Receives(t) =>
            LET res == tasks'[t].hist[Len(tasks[t].hist) + 1]
            IN  /\ res.kind \in {"return", "raise"}
                /\ res.kind = "return" <=> IsSuccess(net[t])
                /\ res.kind = "return" => res.data = net[t].data
    ]_vars

C10_Witness ==
    \E t \in Tasks :
        /\ tasks[t].pc = "done" /\ tasks[t].method = "request"
        /\ Len(tasks[t].hist) = 1
        /\ tasks[t].hist[1].kind = "return" /\ tasks[t].hist[1].data.val = MaxVal
        /\ tasks[t].out = tasks[t].hist[1]

\* the result of the base printer_request call that caller t's step ends
Result(t) == tasks'[t].hist[Len(tasks[t].hist) + 1]

\* an answer that is an HTTP response with a JSON body, other than the success
ErrorBody(r) ==
    r.dir = "resp" /\ r.kind = "http" /\ r.json /\ ~IsSuccess(r)

\* error.code of the body is an integer or a string of digits
CodeIsInteger(r) == r.code.form \in {"int", "str"}

\* the API error of the body: code int(error.code), message error.msg
ApiErrorOf(r) ==
    Raise("APIResponseError", r.code.n, IF r.msg = 0 THEN UnknownError ELSE r.msg)

\* C11 as stated: every answer other than the success, an answer with an
\* HTTP error status and an error body included, raises the API error with
\* the code and the message of the body when error.code is an integer.
C11_ApiErrorForEveryFailure ==
    [][\A t \in Tasks :
        Receives(t) /\ ErrorBody(net[t]) /\ CodeIsInteger(net[t]) =>
            Result(t) = ApiErrorOf(net[t])
    ]_vars

\* C11 amended: an answer with an HTTP status below 400 and a JSON body,
\* other than the success, raises the API error with the code and the
\* message of the body when error.code is an integer; an answer with an HTTP
\* status of 400 or more raises ClientResponseError with the HTTP status,
\* whatever its body says.
C11_ApiErrorBelow400 ==
    [][\A t \in Tasks :
        Receives(t) /\ ErrorBody(net[t]) =>
            /\ (net[t].http < RAISE_FOR_STATUS /\ CodeIsInteger(net[t])) =>
                  Result(t) = ApiErrorOf(net[t])
            /\ net[t].http >= RAISE_FOR_STATUS =>
                  Result(t) = Raise("ClientResponseError", net[t].http, 0)
    ]_vars

\* an API error with a code other than the HTTP status, and an HTTP error
\* whose body was not read, have been raised to the caller
C11_Witness ==
    \E t \in Tasks :
        /\ tasks[t].pc = "done" /\ tasks[t].sends = 1 /\ Len(tasks[t].hist) = 1
        /\ tasks[t].out = tasks[t].hist[1]
        /\ tasks[t].out = Raise("APIResponseError", HTTP_TOO_MANY, 1)
        /\ ~tasks[t].wrapped

\* C12: a JSON answer other than the success whose error.code is absent or
\* is no integer never raises the API error: it raises aiohttp.ClientError
\* when the body is read (HTTP status below 400), and its subclass
\* ClientResponseError when the HTTP status is 400 or more.
C12_GenericErrorWithoutCode ==
    [][\A t \in Tasks :
        Receives(t) /\ ErrorBody(net[t]) /\ ~CodeIsInteger(net[t]) =>
            LET res == Result(t)
            IN  /\ res.kind = "raise"
                /\ res.exc # "APIResponseError"
                /\ res.exc = IF net[t].http < RAISE_FOR_STATUS
                             THEN "ClientError" ELSE "ClientResponseError"
    ]_vars

\* the generic error has been raised to the caller
C12_Witness ==
    \E t \in Tasks :
        /\ tasks[t].pc = "done" /\ Len(tasks[t].hist) = 1
        /\ tasks[t].out = tasks[t].hist[1]
        /\ tasks[t].out.kind = "raise" /\ tasks[t].out.exc = "ClientError"

\* caller t's step ends the login request with a success answer that has a
\* token field
LoginSucceeds(t) ==
    /\ Receives(t)
    /\ Top(tasks[t]).endpoint = "login"
    /\ IsSuccess(net[t])
    /\ net[t].data.token # NoToken

\* C13: printer_token changes only in a step in which a login succeeds, and
\* then to the token of the login answer; every other step (a failing login,
\* a failing or successful request, a backoff, close) leaves it unchanged.
C13_TokenOnlyFromLogin ==
    [][printer_token' # printer_token =>
          \E t \in Tasks : LoginSucceeds(t) /\ printer_token' = net[t].data.token
    ]_vars

\* a login has replaced the token the call started with
C13_Witness ==
    \E t \in Tasks :
        /\ tasks[t].pc = "done" /\ tasks[t].method = "request" /\ tasks[t].held
        /\ tasks[t].logins = 1 /\ Len(tasks[t].hist) = 3
        /\ tasks[t].hist[2].kind = "return"
        /\ printer_token = tasks[t].hist[2].data.token
        /\ tasks[t].hist[3].kind = "raise"

\* a login request in flight
IsLoginRequest(m) == m.dir = "req" /\ m.endpoint = "login"

\* the clock readings in milliseconds
Millis == {n * MsPerSecond : n \in Times}

\* C14: a login request carries no token, a timestamp read from the clock
\* and the signature of the stored password with that very timestamp; the
\* login frame sends no second login request; when the login answer is a
\* success with a token, printer_token becomes that token.
C14_LoginProtocol ==
    [][\A t \in Tasks :
        /\ IsLoginRequest(net'[t]) =>
              /\ net'[t].token = NoToken
              /\ net'[t].timestamp \in Millis
              /\ net'[t].sign = [password |-> printer_password,
                                 timestamp |-> net'[t].timestamp]
        /\ (Receives(t) /\ Top(tasks[t]).endpoint = "login") =>
              ~IsLoginRequest(net'[t])
        /\ LoginSucceeds(t) => printer_token' = net[t].data.token
    ]_vars

\* login(sign, timestamp) has returned the answer whose token is now held
C14_Witness ==
    \E t \in Tasks :
        /\ tasks[t].pc = "done" /\ tasks[t].method = "login"
        /\ tasks[t].sign_arg = "given" /\ tasks[t].ts_arg = "given"
        /\ tasks[t].logins = 1 /\ Len(tasks[t].hist) = 1
        /\ tasks[t].out.kind = "return"
        /\ tasks[t].out.data.token = printer_token /\ printer_token # NoToken
        /\ ~tasks[t].held

\* C15: every request that is put on the wire carries the token the client
\* holds at that moment when the call requires auth, and no token when it
\* does not (the login request).
C15_TokenParameter ==
    [][\A t \in Tasks :
        (net'[t] # net[t] /\ net'[t].dir = "req") =>
            net'[t].token = IF Top(tasks'[t]).auth THEN printer_token' ELSE NoToken
    ]_vars

\* the second send, after a login, carries the token of the login answer
C15_Witness ==
    \E t \in Tasks :
        /\ tasks[t].pc = "wait" /\ tasks[t].sends = 2 /\ tasks[t].logins = 1
        /\ net[t].dir = "req" /\ net[t].endpoint = "call"
        /\ net[t].token = tasks[t].hist[2].data.token
        /\ net[t].token = printer_token

\* caller t calls login with a signature and no timestamp
LoginWithSignOnly(t) ==
    /\ tasks[t].pc = "idle"
    /\ tasks'[t].method = "login"
    /\ tasks'[t].sign_arg = "given" /\ tasks'[t].ts_arg = "None"

\* C16: login called with a signature and no timestamp raises ValueError
\* at once: no request is sent and printer_token is unchanged.
C16_SignWithoutTimestamp ==
    [][\A t \in Tasks :
        LoginWithSignOnly(t) =>
            /\ tasks'[t].pc = "done"
            /\ tasks'[t].out = Raise("ValueError", 0, 0)
            /\ tasks'[t].hist = <<>> /\ tasks'[t].sends = 0
            /\ net'[t] = NoMsg
            /\ printer_token' = printer_token
    ]_vars

\* the ValueError has been raised, with a token held and without
C16_Witness ==
    \E t \in Tasks :
        /\ tasks[t].pc = "done" /\ tasks[t].method = "login"
        /\ tasks[t].sign_arg = "given" /\ tasks[t].ts_arg = "None"
        /\ tasks[t].out = Raise("ValueError", 0, 0)
        /\ tasks[t].logins = 1

\* C17 as stated: generate_sign called with an explicit timestamp t in
\* milliseconds (an int) returns the digest of the password with t, and t.
C17_SignOfGivenTimestamp ==
    sig.timestamp.type = "int" =>
        sig.out = [ok |-> TRUE,
                   sign |-> [password |-> sig.password, timestamp |-> sig.timestamp.v],
                   timestamp |-> sig.timestamp.v]

\* C18: no step of the client (login, requests, get_camera_info, the
\* backoff, close) changes printer_password.
C18_PasswordImmutable == [][printer_password' = printer_password]_vars

\* a login has stored a token, get_camera_info has stored the camera
\* attributes of its answer, and the password is one of construction
C18_Witness ==
    \E t \in Tasks :
        /\ tasks[t].pc = "done" /\ tasks[t].method = "camera"
        /\ tasks[t].out.kind = "return"
        /\ camera.camera_password = tasks[t].out.data.val
        /\ camera.camera_port # DEFAULT_CAMERA_PORT
        /\ printer_token # NoToken
        /\ printer_password \in Passwords

\* the calls issued by the integration that have a request in flight
InFlight == {t \in Tasks : tasks[t].wrapped /\ tasks[t].pc = "wait"}

\* C19 as stated: at most one request issued by the integration is in
\* flight on the client at any time.
C19_OneRequestInFlight == Cardinality(InFlight) <= 1

\* C20 as stated: no operation on this client changes the token, the
\* credentials, the ports of another printer's client, or whether its HTTP
\* session can be used.
C20_PeerUntouched ==
    [][peer' = peer /\ PeerSessionClosed' = PeerSessionClosed]_vars

\* caller t's step ends the login that printer_request made after a 401
NestedLoginAnswered(t) ==
    /\ Receives(t)
    /\ tasks[t].method # "login"
    /\ Top(tasks[t]).endpoint = "login"

\* C21: with one call running on the client, the request sent again after
\* a login that a 401 answer led to carries the token of that login answer
\* (no token when the call requires no auth), which is the token the client
\* then holds.
C21_RetryCarriesNewToken ==
    [][\A t \in Callers :
        (NestedLoginAnswered(t) /\ LoginSucceeds(t) /\ net'[t].dir = "req") =>
            /\ net'[t].endpoint = "call"
            /\ net'[t].token =
                  IF tasks[t].auth THEN net[t].data.token ELSE NoToken
            /\ printer_token' = net[t].data.token
    ]_vars

\* the second send of a call that requires auth is in flight with the token
\* of the login answer
C21_Witness ==
    \E t \in Callers :
        /\ tasks[t].pc = "wait" /\ tasks[t].auth /\ tasks[t].held
        /\ tasks[t].sends = 2 /\ tasks[t].logins = 1
        /\ First401(tasks[t]) /\ Len(tasks[t].hist) = 2
        /\ net[t] = [dir |-> "req", endpoint |-> "call",
                     token |-> tasks[t].hist[2].data.token]
        /\ printer_token = net[t].token

\* C22: when the login that a 401 answer led to fails, the login's error
\* is what printer_request raises, the request is not sent a second time
\* and printer_token is unchanged.
C22_FailedReloginRaised ==
    [][\A t \in Tasks :
        (NestedLoginAnswered(t) /\ ~LoginSucceeds(t)) =>
            LET n == tasks'[t]
            IN  /\ n.pc \in {"done", "sleep"}
                /\ Outcome(n).kind = "raise"
                /\ Result(t).kind = "raise" => Outcome(n) = Result(t)
                /\ Result(t).kind = "return" => Outcome(n).exc = "KeyError"
                /\ n.sends = 1 /\ n.logins = 1
                /\ net'[t] = NoMsg
                /\ printer_token' = printer_token
    ]_vars

\* a login after a 401 was answered with 404, and that error was raised
C22_Witness ==
    \E t \in Tasks :
        /\ tasks[t].pc = "done" /\ tasks[t].method = "request"
        /\ First401(tasks[t]) /\ Len(tasks[t].hist) = 2
        /\ tasks[t].hist[2] = Raise("ClientResponseError", HTTP_NOT_FOUND, 0)
        /\ tasks[t].out = tasks[t].hist[2]
        /\ tasks[t].sends = 1 /\ tasks[t].logins = 1

\* C25: under _async_call_api_method, a failure of the first invocation
\* that is not transient (an OS error with an errno other than 104, a
\* response error with a status other than 429, a generic client error, any
\* other exception) is raised at once: no backoff, no second invocation.
C25_NonTransientRaisedAtOnce ==
    [][\A t \in Tasks :
        LET s == tasks[t]
            n == tasks'[t]
        IN  /\ (Receives(t) /\ s.wrapped /\ s.invocations = 1 /\ n.logins = s.logins
                /\ Result(t).kind = "raise" /\ ~TransientFailure(Result(t))) =>
                  /\ n.pc = "done" /\ n.out = Result(t)
                  /\ n.slept = 0 /\ n.invocations = 1
                  /\ net'[t] = NoMsg
            /\ (s.pc = "idle" /\ n.wrapped /\ n.pc \notin {"idle", "wait"}) =>
                  /\ n.pc = "done" /\ n.out.kind = "raise"
                  /\ n.out.exc \in {"ValueError", "RuntimeError"}
                  /\ n.slept = 0 /\ n.invocations = 1
            /\ (n.wrapped /\ n.pc = "done" /\ n.invocations = 1) => n.slept = 0
    ]_vars

\* a connection error other than a reset was raised by the first invocation
C25_Witness ==
    \E t \in Tasks :
        /\ tasks[t].pc = "done" /\ tasks[t].wrapped
        /\ tasks[t].invocations = 1 /\ tasks[t].slept = 0
        /\ tasks[t].out.kind = "raise" /\ tasks[t].out.exc = "ClientOSError"
        /\ tasks[t].out.status # ECONNRESET

\* C23 as stated: with several calls running on the client against a
\* printer that honours its last issued token, a request that is sent again
\* after its own successful login is not rejected: it returns data.
C23_RetryAfterLoginSucceeds ==
    \A t \in Tasks :
        (/\ tasks[t].pc = "done" /\ tasks[t].method = "request"
         /\ Len(tasks[t].hist) = 3 /\ First401(tasks[t])
         /\ tasks[t].hist[2].kind = "return") =>
            tasks[t].out.kind = "return"

\* ----------------------------------------------------------------- C27
\* what the description's converter makes of a value, from its definition:
\* no converter keeps the raw value; convert_unempty turns a blank string
\* into None; a wrapped conversion applies to what convert_unempty keeps
Converted(k, v) ==
    IF k = "None" THEN v
    ELSE IF v.type = "str" /\ v.text \in {"", " "} THEN NoneValue
    ELSE IF k = "convert_unempty" THEN v
    ELSE Number(v)

HasAttribute(d) == ~d.none /\ d.attr # Absent

\* C27: after every _handle_coordinator_update of a Raise3DCoordinatorEntity
\* (the class's own _process_coordinator_data), the entity is marked
\* available iff the coordinator's data is not None and contains the
\* attribute; when it does and the converter returns, the native value is
\* converter(data[attribute]), the raw value without a converter; when the
\* data is a mapping without the attribute the native value is None (data
\* that is None leaves the native value as it was)
C27_EntityFollowsData ==
    [][LET d == coordinator'.data
           e == entity'
       IN  entity.class = "Raise3DCoordinatorEntity" =>
             /\ e.available <=> HasAttribute(d)
             /\ (HasAttribute(d) /\ e.raised = "none")
                   => e.native_value = Converted(e.converter, d.attr)
             /\ (HasAttribute(d) /\ Converted(e.converter, d.attr).type # "ValueError")
                   => e.raised = "none"
             /\ (~d.none /\ d.attr = Absent) => e.native_value = NoneValue
             /\ d.none => e.native_value = entity.native_value]_vars

\* an update with a number in text has made the entity available, its
\* native value the converted number
C27_Witness ==
    /\ entity.class = "Raise3DCoordinatorEntity"
    /\ entity.converter = "wrap_convert_unempty"
    /\ ~coordinator.data.none /\ coordinator.data.attr = Value("str", "7")
    /\ entity.available /\ entity.native_value = Value("number", "7")

\* ----------------------------------------------------------------- C28
\* C28: after a coordinator update with camera info data, the camera
\* entity's availability equals whether the data reports
\* is_camera_connected as true
C28_CameraAvailability ==
    (entity.class = "Raise3DCamera" /\ ~coordinator.data.none)
        => (entity.available <=> coordinator.data.is_camera_connected = "true")

\* ----------------------------------------------------------------- C24
\* the call sites that go through _async_call_api_method
RetriedSites == {"poll", "command"}

\* C24 as stated: every printer API call of the integration is executed
\* under the transient-failure retry, the login and the system-info fetch
\* of setup, config flow and migration included: a call that ends with a
\* transient failure was invoked twice, with the backoff in between
C24_EveryCallUnderRetry ==
    \A t \in Tasks :
        (tasks[t].site # "none" /\ tasks[t].pc = "done"
         /\ TransientFailure(tasks[t].out)) =>
            tasks[t].invocations = 2 /\ tasks[t].slept = RetryDelay

\* C24, amended: the coordinator polls and the entity commands are executed
\* under the transient-failure retry (one retry after the fixed backoff);
\* the login and the system-info fetch of setup, config flow and migration
\* are not: they are invoked once and a transient failure of theirs is
\* raised at once
C24_RetryAtPollsAndCommands ==
    \A t \in Tasks :
        LET s == tasks[t]
        IN  /\ (s.site \in RetriedSites /\ s.pc = "done" /\ TransientFailure(s.out)) =>
                  s.invocations = 2 /\ s.slept = RetryDelay
            /\ (s.site \in RetriedSites /\ s.pc = "sleep") =>
                  s.invocations = 1 /\ TransientFailure(s.first)
            /\ (s.site \in Sites \ RetriedSites) =>
                  s.invocations <= 1 /\ s.slept = 0 /\ s.pc # "sleep"

\* the login of a setup has failed with a lost connection, once
C24_Witness ==
    \E t \in Tasks :
        /\ tasks[t].site = "setup" /\ tasks[t].method = "login"
        /\ tasks[t].pc = "done" /\ tasks[t].invocations = 1
        /\ tasks[t].out.kind = "raise"
        /\ tasks[t].out.exc = "ServerDisconnectedError"

\* ----------------------------------------------------------------- C26
\* a response error: aiohttp.ClientResponseError or one of its subclasses
ResponseError(res) ==
    /\ res.kind = "raise"
    /\ res.exc \in {"ClientResponseError", "APIResponseError", "ContentTypeError"}

\* the update method's call of poll t is over and _async_update_data ends
EndsUpdate(t) ==
    tasks[t].site = "poll" /\ tasks[t].pc = "done" /\ tasks'[t].pc = "idle"

C26_WitnessOther ==
    /\ ~coordinator.shutdown
    /\ ResponseError(coordinator.raised)
    /\ coordinator.raised.status = HTTP_TOO_MANY

\* ----------------------------------------------------------------- C29
\* the stored entry is newer than the flow handler: major version greater,
\* or same major version and minor version greater
NewerThanHandler(version, minor_version) ==
    version > VERSION \/ (version = VERSION /\ minor_version > MINOR_VERSION)

\* the fields of an entry that the migration can change
Stored(e) == <<e.version, e.minor_version, e.unique_id, e.data, e.registry>>

\* C29: async_migrate_entry returns False and changes nothing (version,
\* minor version, data, unique id, entity registry; no printer API call)
\* when the stored entry's version is newer than the flow handler's
C29_NewerEntryUntouched ==
    [][(entry.pc = "stored" /\ entry'.pc # "stored"
        /\ NewerThanHandler(entry.version, entry.minor_version)) =>
            /\ entry'.pc = "done" /\ entry'.result = "False"
            /\ Stored(entry') = Stored(entry)
            /\ entry'.written = <<>> /\ entry'.api_calls = 0
            /\ tasks' = tasks /\ net' = net
            /\ printer_token' = printer_token
    ]_vars

\* the migration of an entry of version 2.3 has returned False
C29_Witness ==
    /\ entry.pc = "done" /\ entry.result = "False"
    /\ entry.version = VERSION /\ entry.minor_version = MINOR_VERSION + 1

\* ----------------------------------------------------------------- C30
\* the versions the migration has written never go down
Increasing(written) ==
    \A i \in 1..(Len(written) - 1) :
        \/ written[i][1] < written[i + 1][1]
        \/ written[i][1] = written[i + 1][1] /\ written[i][2] < written[i + 1][2]

\* the migration's API calls were answered: no exception of the client
PrinterAnswered(e) ==
    e.result \in {"True", "False", "NameError"}

\* C30: for every stored entry whose version is not newer than the flow
\* handler's and whose printer answers, async_migrate_entry ends returning
\* True, never lowers the version, and leaves the entry at exactly
\* (VERSION, MINOR_VERSION)
C30_MigrationReachesHandlerVersion ==
    (entry.pc = "done" /\ PrinterAnswered(entry) /\ entry.result # "False") =>
        /\ entry.result = "True"
        /\ Increasing(entry.written)
        /\ entry.version = VERSION /\ entry.minor_version = MINOR_VERSION

====
